---- MODULE Spec2Model ----
(***************************************************************************)
(* A model of geohealthaccess/modeling.py: the speed stages                *)
(* (get_segment_speed, speed_from_roads, speed_from_landcover,             *)
(* combine_speed_rasters, combine_speeds), the friction converter          *)
(* (compute_friction) and the cost-distance run (compute_traveltime).      *)
(*                                                                         *)
(* The state is the file system the stages read and write (fs), the        *)
(* arguments that are not files, what the last call did, and for a         *)
(* cost-distance run the step it is at and its GRASS location.  A raster   *)
(* file is a record: its cell values (data) and what its profile declares. *)
(* A floating-point value is a record: an exact fraction n/d ("fin"),      *)
(* +inf, -inf or nan, with IEEE division and comparisons (every comparison *)
(* with nan is false); rounding to the float width is left out.            *)
(***************************************************************************)
EXTENDS Integers, Sequences, FiniteSets, TLC

\* ---------------------------------------------------------------- bounds
\* Number of cells of the grid the speed and friction rasters share.
NCells == 2
\* The most rows of a road network.
MaxSegments == 2

\* ------------------------------------------------------- program constants
\* compute_friction(speed_raster, dst_filename, max_time=3600)
DEFAULT_MAX_TIME == 3600
\* speed_from_roads: rasterize(..., fill=0, ...)
ROAD_FILL == 0
\* speed_from_roads: dst_profile.update(..., nodata=255, ...)
ROAD_NODATA == 255
\* speed_from_landcover: dst_profile.update(count=1, dtype=np.float32, nodata=-1)
LAND_NODATA == -1
\* speed_from_landcover: speed[surface_water >= 2] = 0
WATER_MONTHS == 2

VARIABLES
    fs,               \* path -> the file at that path, or NoFile
    max_time,         \* the max_time argument of compute_friction
    castMode,         \* how this build converts a float written to an
                      \* integer band: "trunc" (ndarray.astype) or "round"
                      \* (GDAL's RasterIO)
    segmentSpeeds,    \* what get_segment_speed returned for each row of the
                      \* network in the last run of speed_from_roads
    lastCall,         \* the last call of a stage: its destination, whether
                      \* the destination existed, what it held, and whether
                      \* the call read its inputs
    call,             \* the call of compute_traveltime: its method and
                      \* dst_backlink arguments, the step it is at, the
                      \* exception it raised and the output arguments whose
                      \* directories it has made
    grass             \* the temporary GRASS location under GRASSDATA: the
                      \* raster maps imported into it and computed in it

vars == <<fs, max_time, castMode, segmentSpeeds, lastCall, call, grass>>

\* A file that does not exist.
NoFile == [exists |-> FALSE]

Cells == 1..NCells

Paths == {"network", "roads", "landcover", "water", "land", "land_layers",
          "A", "B", "AB", "BA", "plainAB", "plainBA",
          "speed", "combined", "friction",
          "src_friction", "src_elevation", "src_target",
          "dst_cost", "dst_nearest", "dst_backlink"}

\* compute_traveltime has not been called, and no GRASS location exists.
NoRun == [pc |-> "idle", method |-> "none", dst_backlink |-> "None",
          raised |-> "none", made |-> {}, result |-> "pending"]
NoLocation == [exists |-> FALSE]

NoCall == [stage |-> "none", dst |-> "none", existed |-> FALSE,
           before |-> NoFile, read |-> FALSE, raised |-> FALSE]

\* The file system holding only the files of f (a function over some paths).
OnlyFiles(f) == [p \in Paths |-> IF p \in DOMAIN f THEN f[p] ELSE NoFile]

\* ------------------------------------------------------------- arithmetic
Abs(x) == IF x < 0 THEN -x ELSE x

RECURSIVE GCD(_, _)
GCD(a, b) == IF b = 0 THEN a ELSE GCD(b, a % b)

\* The fraction n/d (d # 0) in lowest terms with a positive denominator.
Fin(n, d) ==
    LET g == GCD(Abs(n), Abs(d))
        s == IF d < 0 THEN -1 ELSE 1
    IN  [k |-> "fin", n |-> (s * n) \div g, d |-> (s * d) \div g]

PosInf == [k |-> "inf"]
NegInf == [k |-> "ninf"]
NaN == [k |-> "nan"]

IsFin(x) == x.k = "fin"

\* numpy true division of floats (division by zero gives inf or nan).
FDiv(a, b) ==
    CASE a.k = "nan" \/ b.k = "nan" -> NaN
      [] IsFin(a) /\ IsFin(b) ->
            IF b.n # 0 THEN Fin(a.n * b.d, a.d * b.n)
            ELSE IF a.n > 0 THEN PosInf
            ELSE IF a.n < 0 THEN NegInf
            ELSE NaN
      [] IsFin(a) -> Fin(0, 1)
      [] IsFin(b) ->
            IF (a.k = "inf") = (b.n >= 0) THEN PosInf ELSE NegInf
      [] OTHER -> NaN

\* a + b and a * b on finite floats.
FAdd(a, b) == Fin(a.n * b.d + b.n * a.d, a.d * b.d)
FMul(a, b) == Fin(a.n * b.n, a.d * b.d)

\* a < b on floats.
FLess(a, b) ==
    CASE a.k = "nan" \/ b.k = "nan" -> FALSE
      [] IsFin(a) /\ IsFin(b) -> a.n * b.d < b.n * a.d
      [] a.k = "ninf" -> b.k # "ninf"
      [] b.k = "inf" -> a.k # "inf"
      [] OTHER -> FALSE

\* a == b on floats.
FEq(a, b) ==
    CASE a.k = "nan" \/ b.k = "nan" -> FALSE
      [] IsFin(a) /\ IsFin(b) -> a.n * b.d = b.n * a.d
      [] OTHER -> a.k = b.k

FLessEq(a, b) == FLess(a, b) \/ FEq(a, b)

\* np.isinf
IsInf(x) == x.k \in {"inf", "ninf"}

\* np.sqrt of a perfect square (the resolutions of the model are chosen so
\* that xres^2 + yres^2 is one), by Newton's iteration.
RECURSIVE SqrtFrom(_, _)
SqrtFrom(n, x) ==
    LET y == (x + n \div x) \div 2
    IN  IF y >= x THEN x ELSE SqrtFrom(n, y)

ISqrt(n) == IF n = 0 THEN 0 ELSE SqrtFrom(n, n)

\* int(x) of a finite float: truncation toward zero.
IntOf(x) == IF x.n >= 0 THEN x.n \div x.d ELSE -((-x.n) \div x.d)

\* <<xres, yres>> of a grid, in metres.
Resolutions == {<<30, 40>>, <<300, 400>>}

\* ------------------------------------- get_segment_speed, speed_from_roads
\* The network_speeds argument: base speeds (km/h) per highway category and
\* the multipliers of the quality tags, in percent.
NetworkSpeeds ==
    [highway |-> [primary |-> 80, track |-> 20, path |-> 1,
                  closed |-> 0, runway |-> 300],
     tracktype |-> [grade1 |-> 100, grade3 |-> 50],
     smoothness |-> [good |-> 100, bad |-> 70],
     surface |-> [paved |-> 100, gravel |-> 80]]

\* A tag a row does not carry (None).
NoTag == "None"

\* The absent value get_segment_speed returns (None).
NoSpeed == [k |-> "none"]

\* dict.get(tag, 1), in percent.
TagMultiplier(table, tag) ==
    IF tag \in DOMAIN table THEN table[tag] ELSE 100

\* Python's min of three numbers.
Min3(a, b, c) ==
    IF a <= b /\ a <= c THEN a ELSE IF b <= c THEN b ELSE c

\* A slip get_segment_speed could have: the product of the multipliers.
get_segment_speed_product(highway, tracktype, smoothness, surface) ==
    IF highway \notin DOMAIN NetworkSpeeds.highway
    THEN NoSpeed
    ELSE Fin(NetworkSpeeds.highway[highway]
               * TagMultiplier(NetworkSpeeds.tracktype, tracktype)
               * TagMultiplier(NetworkSpeeds.smoothness, smoothness)
               * TagMultiplier(NetworkSpeeds.surface, surface), 1000000)

\* A slip get_segment_speed could have: an unknown category gets a default
\* base speed instead of no speed.
get_segment_speed_default(highway, tracktype, smoothness, surface) ==
    LET base_speed == IF highway \in DOMAIN NetworkSpeeds.highway
                      THEN NetworkSpeeds.highway[highway] ELSE 5
    IN  Fin(base_speed * Min3(TagMultiplier(NetworkSpeeds.tracktype, tracktype),
                              TagMultiplier(NetworkSpeeds.smoothness, smoothness),
                              TagMultiplier(NetworkSpeeds.surface, surface)), 100)

\* get_segment_speed(highway, tracktype, smoothness, surface, network_speeds)
get_segment_speed(highway, tracktype, smoothness, surface) ==
    IF highway \notin DOMAIN NetworkSpeeds.highway
    THEN NoSpeed
    ELSE LET base_speed == NetworkSpeeds.highway[highway]
             tt == TagMultiplier(NetworkSpeeds.tracktype, tracktype)
             sm == TagMultiplier(NetworkSpeeds.smoothness, smoothness)
             su == TagMultiplier(NetworkSpeeds.surface, surface)
         IN  Fin(base_speed * Min3(tt, sm, su), 100)

\* The call of get_segment_speed for one row of the network.
RowSpeed(row) ==
    get_segment_speed(row.highway, row.tracktype, row.smoothness, row.surface)

\* "if speed:": None and 0.0 are false.
Truthy(speed) == speed # NoSpeed /\ ~FEq(speed, Fin(0, 1))

\* The shapes list: (geometry, int(speed)) of every row with a speed, in order.
RECURSIVE Shapes(_)
Shapes(rows) ==
    IF rows = << >> THEN << >>
    ELSE LET speed == RowSpeed(Head(rows))
         IN  IF Truthy(speed)
             THEN <<[cells |-> Head(rows).cells, value |-> Fin(IntOf(speed), 1)]>>
                  \o Shapes(Tail(rows))
             ELSE Shapes(Tail(rows))

\* rasterize(shapes, fill=0, all_touched=True): the shapes are burned in
\* order onto an array of fill values, each over what was burned before.
RECURSIVE Rasterize(_, _)
Rasterize(shapes, out) ==
    IF shapes = << >> THEN out
    ELSE Rasterize(Tail(shapes),
                   [c \in Cells |->
                      IF c \in Head(shapes).cells THEN Head(shapes).value
                      ELSE out[c]])

\* rasterize(..., dtype=uint8) raises ValueError when a shape value cannot be
\* cast to uint8.
CanCastUint8(shapes) ==
    \A i \in DOMAIN shapes : shapes[i].value.n \in 0..255

\* A slip speed_from_roads could have: fill=255, the declared nodata value.
RoadRasterFilledWithNodata(rows) ==
    [exists |-> TRUE,
     dtype |-> "uint8",
     nodata |-> Fin(ROAD_NODATA, 1),
     data |-> Rasterize(Shapes(rows), [c \in Cells |-> Fin(ROAD_NODATA, 1)])]

\* The raster speed_from_roads writes for the rows of a network.
RoadRaster(rows) ==
    [exists |-> TRUE,
     dtype |-> "uint8",
     nodata |-> Fin(ROAD_NODATA, 1),
     data |-> Rasterize(Shapes(rows), [c \in Cells |-> Fin(ROAD_FILL, 1)])]

\* speed_from_roads(src_filename, dst_filename, ...): returns at once when
\* dst_filename is a file; otherwise resolves the speed of every row,
\* rasterizes the rows that have one and writes the raster; when rasterize
\* raises, nothing is written.
SpeedFromRoads(src, dst) ==
    /\ fs[src].exists
    /\ lastCall' = [stage |-> "speed_from_roads", dst |-> dst,
                    existed |-> fs[dst].exists, before |-> fs[dst],
                    read |-> ~fs[dst].exists,
                    raised |-> /\ ~fs[dst].exists
                               /\ ~CanCastUint8(Shapes(fs[src].rows))]
    /\ IF fs[dst].exists
       THEN UNCHANGED <<fs, segmentSpeeds>>
       ELSE /\ segmentSpeeds' =
                  [i \in 1..Len(fs[src].rows) |-> RowSpeed(fs[src].rows[i])]
            /\ IF CanCastUint8(Shapes(fs[src].rows))
               THEN fs' = [fs EXCEPT ![dst] = RoadRaster(fs[src].rows)]
               ELSE UNCHANGED fs
    /\ UNCHANGED <<max_time, castMode, call, grass>>

\* The cells a geometry touches.
Geometries == {{1}, {1, 2}}

Rows ==
    [highway : {"primary", "path", "footway"},
     tracktype : {NoTag, "grade3", "grade9"},
     smoothness : {NoTag, "bad"},
     surface : {NoTag, "gravel"},
     cells : Geometries]

Networks == UNION {[1..n -> Rows] : n \in 0..MaxSegments}

NetworkFile(rows) == [exists |-> TRUE, rows |-> rows]

RoadsInit ==
    /\ \E rows \in Networks : fs = OnlyFiles([network |-> NetworkFile(rows)])
    /\ max_time = DEFAULT_MAX_TIME
    /\ castMode = "round"
    /\ segmentSpeeds = << >>
    /\ lastCall = NoCall
    /\ call = NoRun
    /\ grass = NoLocation

RoadsNext == SpeedFromRoads("network", "roads")

SpecRoads == RoadsInit /\ [][RoadsNext]_vars

\* The rows of the network file and the raster written from them.
network == fs["network"].rows
roadRaster == fs["roads"]

Recognized(row) == row.highway \in DOMAIN NetworkSpeeds.highway

\* The multipliers (percent) of a row: the table value of each tag, 100 when
\* the row does not carry the tag or the table does not hold it.
RowMultipliers(row) ==
    {IF row.tracktype \in DOMAIN NetworkSpeeds.tracktype
       THEN NetworkSpeeds.tracktype[row.tracktype] ELSE 100,
     IF row.smoothness \in DOMAIN NetworkSpeeds.smoothness
       THEN NetworkSpeeds.smoothness[row.smoothness] ELSE 100,
     IF row.surface \in DOMAIN NetworkSpeeds.surface
       THEN NetworkSpeeds.surface[row.surface] ELSE 100}

\* C6: for a recognized highway category get_segment_speed returns
\* base_speed times the least of the three multipliers (not their product):
\* the result is base_speed * m for one of the multipliers m and is at most
\* base_speed * m for each of them; base speed 80 with multipliers 0.5, 1 and
\* 0.8 gives 40.
C6_SpeedIsBaseTimesMinMultiplier ==
    \A i \in DOMAIN segmentSpeeds :
        Recognized(network[i]) =>
            LET base == NetworkSpeeds.highway[network[i].highway]
                speed == segmentSpeeds[i]
            IN  /\ speed # NoSpeed
                /\ \E m \in RowMultipliers(network[i]) :
                       FEq(speed, Fin(base * m, 100))
                /\ \A m \in RowMultipliers(network[i]) :
                       FLessEq(speed, Fin(base * m, 100))
                /\ (base = 80 /\ RowMultipliers(network[i]) = {50, 100, 80})
                       => FEq(speed, Fin(40, 1))

\* C6's case: a primary road (80) of tracktype grade3 (0.5), without a
\* smoothness tag (1) and of surface gravel (0.8) has been resolved.
C6_Witness ==
    \E i \in DOMAIN segmentSpeeds :
        /\ network[i].highway = "primary"
        /\ network[i].tracktype = "grade3"
        /\ network[i].smoothness = NoTag
        /\ network[i].surface = "gravel"

\* The rows burned at cell c: recognized, with a speed that is not 0.
BurnedRows(c) ==
    {i \in DOMAIN network :
        /\ Recognized(network[i])
        /\ ~FEq(segmentSpeeds[i], Fin(0, 1))
        /\ c \in network[i].cells}

Last(S) == CHOOSE i \in S : \A j \in S : j <= i

\* C7: a row whose highway category is not a key of the speed table gets no
\* speed, whatever its other tags, and nothing is burned for it: every cell
\* of the road raster holds the value of the last burned row among the
\* recognized ones, or 0, the fill, when no recognized row touches it.
C7_UnknownCategoryExcluded ==
    roadRaster.exists =>
        /\ \A i \in DOMAIN network :
               ~Recognized(network[i]) => segmentSpeeds[i] = NoSpeed
        /\ \A c \in Cells :
               roadRaster.data[c] =
                  IF BurnedRows(c) = {} THEN Fin(0, 1)
                  ELSE Fin(IntOf(segmentSpeeds[Last(BurnedRows(c))]), 1)

\* C7's case: the raster of a network with a footway (not in the table) that
\* carries quality tags, laid over a cell that a primary road before it also
\* touches.
C7_Witness ==
    /\ roadRaster.exists
    /\ \E i, j \in DOMAIN network :
           /\ i < j
           /\ network[i].highway = "primary"
           /\ network[j].highway = "footway"
           /\ network[j].tracktype = "grade3"
           /\ network[j].surface = "gravel"
           /\ network[j].cells \cap network[i].cells # {}

\* C14 as stated: every cell of the road raster that no burned geometry
\* touches holds the nodata value its profile declares.
C14_UntouchedCellsHoldNodata ==
    roadRaster.exists =>
        \A c \in Cells :
            BurnedRows(c) = {} => roadRaster.data[c] = roadRaster.nodata

\* C14 as amended: every cell of the road raster that no burned geometry
\* touches holds 0, the fill value of rasterize, which is not the nodata
\* value (255) its profile declares.
C14_UntouchedCellsHoldFill ==
    roadRaster.exists =>
        \A c \in Cells :
            BurnedRows(c) = {} =>
                /\ roadRaster.data[c] = Fin(ROAD_FILL, 1)
                /\ roadRaster.data[c] # roadRaster.nodata

\* C14's case: the raster of a network with a burned road, with a cell the
\* road touches and a cell nothing touches.
C14_Witness ==
    /\ roadRaster.exists
    /\ \E c, e \in Cells : BurnedRows(c) # {} /\ BurnedRows(e) = {}

\* ------------------------------------------------------ speed_from_landcover
\* The landcover_speeds argument: speed (km/h) per land cover class.
LandcoverSpeeds == [Bare |-> 5, Tree |-> 3]

\* The band descriptions of the land cover raster, band 1 first.
Descriptions == <<"Bare", "Tree">>

\* The blend of the bands from band id on, added to speed, at cell c:
\* speed += (coverfraction / 100) * landcover_speeds[landcover] per band.
RECURSIVE BlendFrom(_, _, _, _)
BlendFrom(id, src_land, c, speed) ==
    IF id > Len(src_land.descriptions) THEN speed
    ELSE LET coverfraction == src_land.bands[id][c]
             landcover == src_land.descriptions[id]
         IN  BlendFrom(id + 1, src_land, c,
                       FAdd(speed,
                            FMul(FDiv(coverfraction, Fin(100, 1)),
                                 Fin(LandcoverSpeeds[landcover], 1))))

\* A slip the water override could have: "more than 2 months".
WaterOverrideStrict(surface_water, speed) ==
    IF FLess(Fin(WATER_MONTHS, 1), surface_water) THEN Fin(0, 1) ELSE speed

\* speed[surface_water >= 2] = 0
WaterOverride(surface_water, speed) ==
    IF FLessEq(Fin(WATER_MONTHS, 1), surface_water) THEN Fin(0, 1) ELSE speed

\* The value written for one cell of a window.
LandcoverSpeed(src_land, src_water, c) ==
    WaterOverride(src_water.data[c], BlendFrom(1, src_land, c, Fin(0, 1)))

\* The raster speed_from_landcover writes: the profile of the land cover
\* raster with count=1, dtype=float32 and nodata=-1.
LandRaster(src_land, src_water) ==
    [exists |-> TRUE,
     dtype |-> "float32",
     nodata |-> Fin(LAND_NODATA, 1),
     res |-> src_land.res,
     data |-> [c \in Cells |-> LandcoverSpeed(src_land, src_water, c)]]

\* The file left when dst_filename has been opened for writing and closed
\* before any window is written: the profile, and blocks that read as nodata.
UnwrittenLandRaster(src_land) ==
    [exists |-> TRUE,
     dtype |-> "float32",
     nodata |-> Fin(LAND_NODATA, 1),
     res |-> src_land.res,
     data |-> [c \in Cells |-> Fin(LAND_NODATA, 1)]]

\* speed_from_landcover(src_filename, dst_filename, water_filename): returns
\* at once when dst_filename is a file; otherwise dst_filename is opened for
\* writing, then water_filename is opened (which raises when it is not
\* there), then every window is blended, overridden where water stands and
\* written.
SpeedFromLandcover(src, dst, water) ==
    /\ fs[src].exists
    /\ lastCall' = [stage |-> "speed_from_landcover", dst |-> dst,
                    existed |-> fs[dst].exists, before |-> fs[dst],
                    read |-> ~fs[dst].exists,
                    raised |-> ~fs[dst].exists /\ ~fs[water].exists]
    /\ IF fs[dst].exists
       THEN UNCHANGED fs
       ELSE IF ~fs[water].exists
       THEN fs' = [fs EXCEPT ![dst] = UnwrittenLandRaster(fs[src])]
       ELSE fs' = [fs EXCEPT ![dst] = LandRaster(fs[src], fs[water])]
    /\ UNCHANGED <<max_time, castMode, segmentSpeeds, call, grass>>

\* Cover fractions (percent) of a land cover band, and its nodata value -1.
CoverValues == {Fin(-1, 1), Fin(0, 1), Fin(40, 1), Fin(100, 1)}

\* Months of water cover.
WaterValues == {Fin(1, 1), Fin(2, 1), Fin(3, 1)}

LandcoverFile(bands, res) ==
    [exists |-> TRUE, dtype |-> "float32", nodata |-> Fin(-1, 1), res |-> res,
     descriptions |-> Descriptions, bands |-> bands]

WaterFile(data) == [exists |-> TRUE, data |-> data]

LandcoverInit ==
    /\ \E bands \in [1..Len(Descriptions) -> [Cells -> CoverValues]],
          data \in [Cells -> WaterValues] :
          fs = OnlyFiles([landcover |-> LandcoverFile(bands, <<30, 40>>),
                          water |-> WaterFile(data)])
    /\ max_time = DEFAULT_MAX_TIME
    /\ castMode = "round"
    /\ segmentSpeeds = << >>
    /\ lastCall = NoCall
    /\ call = NoRun
    /\ grass = NoLocation

LandcoverNext == SpeedFromLandcover("landcover", "land", "water")

SpecLandcover == LandcoverInit /\ [][LandcoverNext]_vars

\* The sum of the values of the function f.
RECURSIVE SumOf(_)
SumOf(f) ==
    IF DOMAIN f = {} THEN 0
    ELSE LET x == CHOOSE y \in DOMAIN f : TRUE
         IN  f[x] + SumOf([y \in DOMAIN f \ {x} |-> f[y]])

\* C9: every cell of the raster speed_from_landcover writes holds the sum over
\* the land cover classes k of (coverage_k / 100) * table[class_k] when the
\* water-months value of the cell is below 2, and 0 when it is 2 or more,
\* whatever the land cover of the cell.
C9_LandcoverBlendWithWaterOverride ==
    fs["land"].exists =>
        \A c \in Cells :
            LET land == fs["landcover"]
                months == fs["water"].data[c]
                total == SumOf([k \in DOMAIN land.bands |->
                                  land.bands[k][c].n
                                     * LandcoverSpeeds[land.descriptions[k]]])
            IN  IF months.n < 2 * months.d
                THEN FEq(fs["land"].data[c], Fin(total, 100))
                ELSE FEq(fs["land"].data[c], Fin(0, 1))

\* C9's case: a written raster with a cell of mixed cover under water for
\* exactly 2 months, and a cell of mixed cover under water for 1 month.
C9_Witness ==
    /\ fs["land"].exists
    /\ \E c, e \in Cells :
          /\ fs["water"].data[c] = Fin(2, 1)
          /\ fs["water"].data[e] = Fin(1, 1)
          /\ \A x \in {c, e} :
                /\ fs["landcover"].bands[1][x] = Fin(40, 1)
                /\ fs["landcover"].bands[2][x] = Fin(40, 1)

\* ------------------------------------ combine_speed_rasters, combine_speeds
\* np.maximum of two values.
Maximum(a, b) == IF FLess(a, b) THEN b ELSE a

\* A slip the nodata mapping could have: "speed <= 0".
MapNonPositiveToNodata(speed, nodata) ==
    IF FLessEq(speed, Fin(0, 1)) THEN nodata ELSE speed

\* speed[speed < 0] = src_land.nodata
MapNegativeToNodata(speed, nodata) ==
    IF FLess(speed, Fin(0, 1)) THEN nodata ELSE speed

\* dst.write(speed, ...): the value as the band of dtype holds it.  A float
\* written to a uint8 band becomes an integer (the values of the model stay
\* within 0..255); a float band holds the value as it is.
WriteCast(v, dtype) ==
    IF dtype = "uint8" /\ IsFin(v)
    THEN IF castMode = "trunc" THEN Fin(IntOf(v), 1)
         ELSE Fin(IntOf(FAdd(v, Fin(1, 2))), 1)
    ELSE v

\* The raster combine_speed_rasters writes: the profile of the land cover
\* speed raster, and per cell the larger of the two speeds, a negative one
\* replaced by the nodata value of the land cover speed raster.
CombinedRaster(src_land, src_road) ==
    [exists |-> TRUE,
     written |-> TRUE,
     dtype |-> src_land.dtype,
     nodata |-> src_land.nodata,
     res |-> src_land.res,
     data |-> [c \in Cells |->
                 WriteCast(MapNegativeToNodata(
                               Maximum(src_land.data[c], src_road.data[c]),
                               src_land.nodata),
                           src_land.dtype)]]

\* combine_speed_rasters(landcover_speed, roadnetwork_speed, dst_filename):
\* dst_filename is opened for writing whether or not it exists.
CombineSpeedRasters(landcover_speed, roadnetwork_speed, dst) ==
    /\ fs[landcover_speed].exists /\ fs[roadnetwork_speed].exists
    /\ lastCall' = [stage |-> "combine_speed_rasters", dst |-> dst,
                    existed |-> fs[dst].exists, before |-> fs[dst],
                    read |-> TRUE, raised |-> FALSE]
    /\ fs' = [fs EXCEPT ![dst] =
                 CombinedRaster(fs[landcover_speed], fs[roadnetwork_speed])]
    /\ UNCHANGED <<max_time, castMode, segmentSpeeds, call, grass>>

\* The raster combine_speeds writes: the profile of the land cover speed
\* raster and the larger of the two speeds per cell.  Its windows come from
\* src.block_windows(1) of a dataset that is closed by then: where that
\* raises, the file has been created and no window has been written.
PlainCombinedRaster(src_land, src_road, completes) ==
    [exists |-> TRUE,
     written |-> completes,
     dtype |-> src_land.dtype,
     nodata |-> src_land.nodata,
     res |-> src_land.res,
     data |-> [c \in Cells |->
                 IF completes
                 THEN WriteCast(Maximum(src_land.data[c], src_road.data[c]),
                                src_land.dtype)
                 ELSE Fin(0, 1)]]

\* combine_speeds(landcover, roadnetwork, dst_file)
CombineSpeeds(landcover, roadnetwork, dst) ==
    /\ fs[landcover].exists /\ fs[roadnetwork].exists
    /\ lastCall' = [stage |-> "combine_speeds", dst |-> dst,
                    existed |-> fs[dst].exists, before |-> fs[dst],
                    read |-> TRUE, raised |-> FALSE]
    /\ \E completes \in BOOLEAN :
          fs' = [fs EXCEPT ![dst] =
                    PlainCombinedRaster(fs[landcover], fs[roadnetwork], completes)]
    /\ UNCHANGED <<max_time, castMode, segmentSpeeds, call, grass>>

\* The speed rasters of the model: float32 rasters whose nodata value is -1
\* (the land cover speed raster) or -32768, holding the nodata value or 2.5,
\* and uint8 rasters (the road speed raster) holding 0 or 80.
SpeedRasterFiles ==
    {[exists |-> TRUE, dtype |-> "float32", nodata |-> nd, res |-> <<30, 40>>,
      data |-> d] :
        nd \in {Fin(-1, 1), Fin(-32768, 1)},
        d \in [Cells -> {"nodata", "speed"}]}
    \cup
    {[exists |-> TRUE, dtype |-> "uint8", nodata |-> Fin(ROAD_NODATA, 1),
      res |-> <<30, 40>>, data |-> d] :
        d \in [Cells -> {Fin(0, 1), Fin(80, 1)}]}

\* The cells marked "nodata" hold the file's nodata value, the others 2.5.
Filled(f) ==
    IF f.dtype = "uint8" THEN f
    ELSE [f EXCEPT !.data = [c \in Cells |->
                               IF f.data[c] = "nodata" THEN f.nodata
                               ELSE Fin(5, 2)]]

CombineInit ==
    /\ \E a, b \in SpeedRasterFiles :
          fs = OnlyFiles([A |-> Filled(a), B |-> Filled(b)])
    /\ max_time = DEFAULT_MAX_TIME
    /\ castMode \in {"trunc", "round"}
    /\ segmentSpeeds = << >>
    /\ lastCall = NoCall
    /\ call = NoRun
    /\ grass = NoLocation

CombineNext ==
    \/ CombineSpeedRasters("A", "B", "AB")
    \/ CombineSpeedRasters("B", "A", "BA")
    \/ CombineSpeeds("A", "B", "plainAB")
    \/ CombineSpeeds("B", "A", "plainBA")

SpecCombine == CombineInit /\ [][CombineNext]_vars

\* The rasters at x and y, both completely written, hold equal values in
\* every cell.
SameCells(x, y) == \A c \in Cells : FEq(fs[x].data[c], fs[y].data[c])

Written(x) == fs[x].exists /\ fs[x].written

\* C8 as stated: for all speed rasters A and B, combine(A, B) equals
\* combine(B, A) cell for cell, and combine(A, A) equals A cell for cell (the
\* rasters at A and B may be the same raster).
C8_CombineCommutesAndIsIdempotent ==
    /\ (Written("AB") /\ Written("BA")) => SameCells("AB", "BA")
    /\ (Written("AB") /\ fs["A"] = fs["B"]) => SameCells("AB", "A")
    /\ (Written("plainAB") /\ Written("plainBA")) => SameCells("plainAB", "plainBA")
    /\ (Written("plainAB") /\ fs["A"] = fs["B"]) => SameCells("plainAB", "A")

\* C8 as amended: combine(A, A) equals A cell for cell, and combine(A, B)
\* equals combine(B, A) at every cell when A and B have the same dtype and
\* either the same nodata value or a speed that is not negative at the cell
\* (the output takes the dtype and the nodata value of the first raster).
C8_CombineCommutesOnSameProfile ==
    LET a == fs["A"]
        b == fs["B"]
        Agree(x, y, mapped) ==
            \A c \in Cells :
                (/\ a.dtype = b.dtype
                 /\ \/ ~mapped
                    \/ a.nodata = b.nodata
                    \/ FLessEq(Fin(0, 1), a.data[c])
                    \/ FLessEq(Fin(0, 1), b.data[c]))
                => FEq(fs[x].data[c], fs[y].data[c])
    IN  /\ (Written("AB") /\ Written("BA")) => Agree("AB", "BA", TRUE)
        /\ (Written("AB") /\ a = b) => SameCells("AB", "A")
        /\ (Written("plainAB") /\ Written("plainBA")) =>
               Agree("plainAB", "plainBA", FALSE)
        /\ (Written("plainAB") /\ a = b) => SameCells("plainAB", "A")

\* C8's case: both orders have been written by both functions for two
\* different rasters of one profile, one of which holds its nodata value.
C8_Witness ==
    /\ Written("AB") /\ Written("BA")
    /\ Written("plainAB") /\ Written("plainBA")
    /\ fs["A"].dtype = fs["B"].dtype
    /\ fs["A"].nodata = fs["B"].nodata
    /\ fs["A"].data # fs["B"].data
    /\ \E c \in Cells : fs["A"].data[c] = fs["A"].nodata

\* --------------------------------------------------------- compute_friction
\* diag_distance = np.sqrt(xres * xres + yres * yres)
DiagDistance(res) == Fin(ISqrt(res[1] * res[1] + res[2] * res[2]), 1)

\* speed /= 3.6
ToMetersPerSecond(speed) == FDiv(speed, Fin(36, 10))

\* The three masked assignments of "Clean bad values", in order.
CleanBadValues(speed, time_to_cross, mt) ==
    LET t1 == IF FEq(speed, Fin(0, 1)) THEN Fin(mt, 1) ELSE time_to_cross
        t2 == IF IsInf(t1) THEN Fin(mt, 1) ELSE t1
        t3 == IF FLess(Fin(mt, 1), t2) THEN Fin(mt, 1) ELSE t2
    IN  t3

\* The value written for one cell of a window.
TimeToCross(kmh, res, mt) ==
    LET speed == ToMetersPerSecond(kmh)
    IN  CleanBadValues(speed, FDiv(DiagDistance(res), speed), mt)

\* The raster compute_friction writes: the profile of the speed raster with
\* dtype=float64.
FrictionRaster(src, mt) ==
    [exists |-> TRUE,
     dtype |-> "float64",
     nodata |-> src.nodata,
     res |-> src.res,
     data |-> [c \in Cells |-> TimeToCross(src.data[c], src.res, mt)]]

\* compute_friction(speed_raster, dst_filename, max_time): dst_filename is
\* opened for writing whether or not it exists, and every window is read,
\* converted and written.
ComputeFriction(speed_raster, dst) ==
    /\ fs[speed_raster].exists
    /\ lastCall' = [stage |-> "compute_friction", dst |-> dst,
                    existed |-> fs[dst].exists, before |-> fs[dst],
                    read |-> TRUE, raised |-> FALSE]
    /\ fs' = [fs EXCEPT ![dst] = FrictionRaster(fs[speed_raster], max_time)]
    /\ UNCHANGED <<max_time, castMode, segmentSpeeds, call, grass>>

\* Speeds (km/h) a speed raster holds: the nodata value -1, 0, a very small
\* speed, a walking and a road speed.
SpeedValues == {Fin(-1, 1), Fin(0, 1), Fin(1, 100), Fin(5, 1), Fin(50, 1)}

MaxTimes == {DEFAULT_MAX_TIME, 60}

FrictionInit ==
    /\ \E data \in [Cells -> SpeedValues], res \in Resolutions :
          fs = OnlyFiles([speed |-> [exists |-> TRUE, dtype |-> "float32",
                                     nodata |-> Fin(-1, 1), res |-> res,
                                     data |-> data]])
    /\ max_time \in MaxTimes
    /\ castMode = "round"
    /\ segmentSpeeds = << >>
    /\ lastCall = NoCall
    /\ call = NoRun
    /\ grass = NoLocation

FrictionNext == ComputeFriction("speed", "friction")

SpecFriction == FrictionInit /\ [][FrictionNext]_vars

\* The largest speed of the raster at path p.
MaxSpeed(p) ==
    CHOOSE v \in {fs[p].data[c] : c \in Cells} :
        \A c \in Cells : FLessEq(fs[p].data[c], v)

\* C1: every cell of the friction raster written by compute_friction lies
\* between diagonal_cell_distance / (max_speed / 3.6) and max_time, whatever
\* the speeds of the input raster (0, the nodata value -1 and very small
\* speeds included).
C1_FrictionClamped ==
    fs["friction"].exists =>
        \A c \in Cells :
            /\ FLessEq(FDiv(DiagDistance(fs["speed"].res),
                            ToMetersPerSecond(MaxSpeed("speed"))),
                       fs["friction"].data[c])
            /\ FLessEq(fs["friction"].data[c], Fin(max_time, 1))

\* C2: every cell whose speed is zero or negative gets a friction of exactly
\* max_time (so never a negative, NaN or infinite one).
C2_NonPositiveSpeedGetsMaxTime ==
    fs["friction"].exists =>
        \A c \in Cells :
            FLessEq(fs["speed"].data[c], Fin(0, 1)) =>
                FEq(fs["friction"].data[c], Fin(max_time, 1))

\* ------------------------------------------------- the stages as a pipeline
\* The road networks, land cover rasters and water rasters of the pipeline
\* runs of the model.
PrimaryRoad ==
    [highway |-> "primary", tracktype |-> NoTag, smoothness |-> NoTag,
     surface |-> NoTag, cells |-> {1}]

PipelineNetworks == {<< >>, <<PrimaryRoad>>}

PipelineLandcover ==
    LandcoverFile([k \in 1..Len(Descriptions) |-> [c \in Cells |-> Fin(40, 1)]],
                  <<30, 40>>)

PipelineWaters == {[c \in Cells |-> Fin(1, 1)], [c \in Cells |-> Fin(3, 1)]}

\* The input data change between two runs of the pipeline: the road network
\* is extracted again, or the water raster is preprocessed again.
UpdateNetwork ==
    /\ \E rows \in PipelineNetworks \ {fs["network"].rows} :
          fs' = [fs EXCEPT !["network"] = NetworkFile(rows)]
    /\ UNCHANGED <<max_time, castMode, segmentSpeeds, lastCall, call, grass>>

UpdateWater ==
    /\ \E data \in PipelineWaters \ {fs["water"].data} :
          fs' = [fs EXCEPT !["water"] = WaterFile(data)]
    /\ UNCHANGED <<max_time, castMode, segmentSpeeds, lastCall, call, grass>>

StagesInit ==
    /\ \E rows \in PipelineNetworks, data \in PipelineWaters :
          fs = OnlyFiles([network |-> NetworkFile(rows),
                          landcover |-> PipelineLandcover,
                          water |-> WaterFile(data)])
    /\ max_time = DEFAULT_MAX_TIME
    /\ castMode \in {"trunc", "round"}
    /\ segmentSpeeds = << >>
    /\ lastCall = NoCall
    /\ call = NoRun
    /\ grass = NoLocation

StagesNext ==
    \/ SpeedFromRoads("network", "roads")
    \/ SpeedFromLandcover("landcover", "land", "water")
    \/ CombineSpeedRasters("land", "roads", "combined")
    \/ ComputeFriction("combined", "friction")
    \/ UpdateNetwork
    \/ UpdateWater

SpecStages == StagesInit /\ [][StagesNext]_vars

\* C10: a stage called when its output file already exists is a no-op: it
\* returns without reading its inputs and leaves the existing file as it was.
C10_ExistingOutputMakesStageNoOp ==
    lastCall.existed =>
        /\ ~lastCall.read
        /\ fs[lastCall.dst] = lastCall.before

\* ------------------------------------------------------- compute_traveltime
\* Side of the square grid of the cost-distance runs.
GridSize == 3

\* r.out.gdal(input='cost', ..., type='Int32', ..., nodata=-1)
COST_NODATA == -1

\* The null value of a GRASS raster map (what r.null sets, and what a map
\* holds where nothing has been computed).
Null == -1

\* sqrt(2) in thousandths, for the weight of a diagonal move.
SQRT2_MILLI == 1414

\* The cells of the grid, <<row, column>>, row 1 at the top.
EngineCells == (1..GridSize) \X (1..GridSize)

\* The 8 moves, by direction code: 1 = E, 2 = NE, 3 = N, 4 = NW, 5 = W,
\* 6 = SW, 7 = S, 8 = SE.  Code 0 marks a start cell.
Offsets == <<<<0, 1>>, <<-1, 1>>, <<-1, 0>>, <<-1, -1>>,
             <<0, -1>>, <<1, -1>>, <<1, 0>>, <<1, 1>>>>

Step(c, k) == <<c[1] + Offsets[k][1], c[2] + Offsets[k][2]>>

Directions(c) == {k \in 1..8 : Step(c, k) \in EngineCells}

Diagonal(k) == k % 2 = 0

Opposite(k) == ((k + 3) % 8) + 1

\* A raster value in thousandths, the fixed point of the maps of a location.
Milli(v) == (v.n * 1000) \div v.d

\* The cost of the move from cell a in direction k: the mean of the two
\* frictions, times sqrt(2) for a diagonal move.
EdgeWeight(friction, a, k) ==
    LET sum == friction[a] + friction[Step(a, k)]
    IN  IF Diagonal(k) THEN (sum * SQRT2_MILLI) \div 2000 ELSE sum \div 2

\* method not in ('whitebox', 'r.cost', 'r.walk')
Methods == {"whitebox", "r.cost", "r.walk"}

\* The location right after os.makedirs(grass_datadir): no map yet.
NewLocation ==
    [exists |-> TRUE,
     friction |-> [c \in EngineCells |-> Null],
     elevation |-> [c \in EngineCells |-> Null],
     target |-> [c \in EngineCells |-> Null],
     cost |-> [c \in EngineCells |-> Null],
     nearest |-> [c \in EngineCells |-> Null],
     backlink |-> [c \in EngineCells |-> Null],
     done |-> {}]

\* The location after r.in.gdal of the three inputs and r.null of the zeros
\* of the target map; nothing is computed yet.
Imported(friction, elevation, target) ==
    [NewLocation EXCEPT
       !.friction = [c \in EngineCells |-> Milli(friction.data[c])],
       !.elevation = [c \in EngineCells |-> Milli(elevation.data[c])],
       !.target = [c \in EngineCells |->
                     IF target.data[c] = 0 THEN Null ELSE target.data[c]]]

\* A slip the start of compute_traveltime could have: the output
\* directories are made before the method is validated.
DirsMadeBeforeValidation(method, dst_backlink) ==
    IF dst_backlink = "None" THEN {"dst_cost", "dst_nearest"}
    ELSE {"dst_cost", "dst_nearest", "dst_backlink"}

\* The output arguments whose directories exist when the loop over
\* (dst_cost, dst_nearest, dst_backlink) is left: none when the method is
\* refused before it, the first two when os.path.dirname(None) raises at
\* the third.
DirsMade(method, dst_backlink) ==
    IF method \notin Methods THEN {}
    ELSE IF dst_backlink = "None" THEN {"dst_cost", "dst_nearest"}
    ELSE {"dst_cost", "dst_nearest", "dst_backlink"}

\* compute_traveltime(src_friction, src_elevation, src_target, dst_cost,
\* dst_nearest, dst_backlink, method), up to the call of the GRASS module:
\* the method is validated, the output directories are made (which raises
\* TypeError for dst_backlink=None), the whitebox branch raises (the name
\* whitebox is not bound in the module), and the r.* branch makes GRASSDATA
\* (which raises FileExistsError when it is there), opens src_friction for
\* its CRS and imports the inputs.
ComputeTraveltime(src_friction, src_elevation, src_target) ==
    /\ call.pc = "idle"
    /\ fs[src_elevation].exists /\ fs[src_target].exists
    /\ LET Raise(exception) ==
               call' = [call EXCEPT
                          !.pc = "raised", !.raised = exception,
                          !.made = DirsMade(call.method, call.dst_backlink)]
       IN  IF call.method \notin Methods
           THEN Raise("ValueError") /\ UNCHANGED grass
           ELSE IF call.dst_backlink = "None"
           THEN Raise("TypeError") /\ UNCHANGED grass
           ELSE IF call.method = "whitebox"
           THEN Raise("NameError") /\ UNCHANGED grass
           ELSE IF grass.exists
           THEN Raise("FileExistsError") /\ UNCHANGED grass
           ELSE IF ~fs[src_friction].exists
           THEN Raise("RasterioIOError") /\ grass' = NewLocation
           ELSE /\ call' = [call EXCEPT
                              !.pc = "imported",
                              !.made = DirsMade(call.method, call.dst_backlink)]
                /\ grass' = Imported(fs[src_friction], fs[src_elevation],
                                     fs[src_target])
    /\ UNCHANGED <<fs, max_time, castMode, segmentSpeeds, lastCall>>

\* The caller calls compute_traveltime again, with the same arguments,
\* after a call that raised.
CallAgain ==
    /\ call.pc = "raised"
    /\ call' = [call EXCEPT !.pc = "idle", !.raised = "none", !.made = {}]
    /\ UNCHANGED <<fs, max_time, castMode, segmentSpeeds, lastCall, grass>>

\* The friction raster is written (compute_friction has run) where it was
\* missing.
WriteFriction(src_friction) ==
    /\ ~fs[src_friction].exists
    /\ call.pc \in {"idle", "raised"}
    /\ fs' = [fs EXCEPT ![src_friction] =
                 [exists |-> TRUE, dtype |-> "float64", nodata |-> Fin(-1, 1),
                  res |-> <<30, 40>>,
                  data |-> [c \in EngineCells |-> Fin(10, 1)]]]
    /\ UNCHANGED <<max_time, castMode, segmentSpeeds, lastCall, call, grass>>

\* The cells in the queue: reached and not finalized.
Frontier(g) == {c \in EngineCells : g.cost[c] # Null /\ c \notin g.done}

MinFrontier(g) ==
    {c \in Frontier(g) : \A e \in Frontier(g) : g.cost[c] <= g.cost[e]}

\* r.cost / r.walk, start_raster='target': every cell of the target map
\* that is not null enters the queue at cost 0 with its own identifier.
Seeded(g) ==
    [g EXCEPT
       !.cost = [c \in EngineCells |-> IF g.target[c] # Null THEN 0 ELSE Null],
       !.nearest = [c \in EngineCells |-> g.target[c]],
       !.backlink = [c \in EngineCells |->
                       IF g.target[c] # Null THEN 0 ELSE Null]]

\* With no start cell the module either stops with an error (run_command
\* raises CalledModuleError) or goes on with an empty queue.
StartPoints ==
    /\ call.pc = "imported"
    /\ \/ /\ grass' = Seeded(grass)
          /\ call' = [call EXCEPT !.pc = "relaxing"]
       \/ /\ \A c \in EngineCells : grass.target[c] = Null
          /\ call' = [call EXCEPT !.pc = "raised",
                                  !.raised = "CalledModuleError"]
          /\ UNCHANGED grass
    /\ UNCHANGED <<fs, max_time, castMode, segmentSpeeds, lastCall>>

\* Cell c is finalized and its neighbours relaxed: a neighbour that is not
\* finalized takes the candidate cost, the source of c and the move back to c
\* when it has no cost yet or the candidate is cheaper.
Relaxed(g, c) ==
    LET Cand(k) == g.cost[c] + EdgeWeight(g.friction, c, k)
        taken == {k \in Directions(c) :
                     /\ Step(c, k) \notin g.done
                     /\ \/ g.cost[Step(c, k)] = Null
                        \/ Cand(k) < g.cost[Step(c, k)]}
        from == [n \in {Step(c, k) : k \in taken} |->
                    CHOOSE k \in taken : Step(c, k) = n]
    IN  [g EXCEPT
           !.done = @ \cup {c},
           !.cost = [n \in EngineCells |->
                       IF n \in DOMAIN from THEN Cand(from[n])
                       ELSE g.cost[n]],
           !.nearest = [n \in EngineCells |->
                          IF n \in DOMAIN from THEN g.nearest[c]
                          ELSE g.nearest[n]],
           !.backlink = [n \in EngineCells |->
                           IF n \in DOMAIN from THEN Opposite(from[n])
                           ELSE g.backlink[n]]]

\* One step of the accumulation: a cheapest cell of the queue is finalized
\* (the accumulation is over when the queue is empty).  Which of the cells
\* of equal cost leaves the queue first is the module's business: the call
\* passes nothing that orders them.
Relax ==
    /\ call.pc = "relaxing"
    /\ \E c \in MinFrontier(grass) : grass' = Relaxed(grass, c)
    /\ UNCHANGED <<fs, max_time, castMode, segmentSpeeds, lastCall, call>>

\* r.out.gdal(..., type='Int32', nodata=-1) of a value of a floating-point
\* map: whole seconds, the null value as the nodata value.
ToInt32(v) ==
    IF v = Null THEN COST_NODATA
    ELSE IF castMode = "trunc" THEN v \div 1000 ELSE (v + 500) \div 1000

\* r.out.gdal(input='cost', output=dst_cost, type='Int32', nodata=-1)
CostRaster(g) ==
    [exists |-> TRUE, dtype |-> "Int32", nodata |-> COST_NODATA,
     data |-> [c \in EngineCells |-> ToInt32(g.cost[c])]]

\* A slip the second export could have: input='nearest'.
BacklinkRasterOfNearest(g) ==
    [exists |-> TRUE, dtype |-> "Int32", nodata |-> Null,
     data |-> g.nearest]

\* r.out.gdal(input='backlink', output=dst_backlink)
BacklinkRaster(g) ==
    [exists |-> TRUE, dtype |-> "Int32", nodata |-> Null,
     data |-> g.backlink]

\* r.out.gdal(input='nearest', output=dst_nearest)
NearestRaster(g) ==
    [exists |-> TRUE, dtype |-> "Int32", nodata |-> Null,
     data |-> g.nearest]

ExportCost(dst_cost) ==
    /\ call.pc = "relaxing"
    /\ Frontier(grass) = {}
    /\ fs' = [fs EXCEPT ![dst_cost] = CostRaster(grass)]
    /\ call' = [call EXCEPT !.pc = "cost_written"]
    /\ UNCHANGED <<max_time, castMode, segmentSpeeds, lastCall, grass>>

ExportBacklink ==
    /\ call.pc = "cost_written"
    /\ fs' = [fs EXCEPT ![call.dst_backlink] = BacklinkRaster(grass)]
    /\ call' = [call EXCEPT !.pc = IF call.method = "r.cost"
                                   THEN "backlink_written" ELSE "exported"]
    /\ UNCHANGED <<max_time, castMode, segmentSpeeds, lastCall, grass>>

\* if method == 'r.cost': the nearest map is exported too.
ExportNearest(dst_nearest) ==
    /\ call.pc = "backlink_written"
    /\ fs' = [fs EXCEPT ![dst_nearest] = NearestRaster(grass)]
    /\ call' = [call EXCEPT !.pc = "exported"]
    /\ UNCHANGED <<max_time, castMode, segmentSpeeds, lastCall, grass>>

\* shutil.rmtree(grass_datadir); return: the bare return statement gives None.
CleanGrassdata ==
    /\ call.pc = "exported"
    /\ grass' = NoLocation
    /\ call' = [call EXCEPT !.pc = "returned", !.result = "None"]
    /\ UNCHANGED <<fs, max_time, castMode, segmentSpeeds, lastCall>>

\* The friction rasters of the runs: 10 s everywhere, 3.6 s everywhere (a
\* 50 m diagonal at 50 km/h), and 10 s around a centre of 30 s.
SlowCell == <<2, 2>>

FrictionData ==
    {[c \in EngineCells |-> Fin(10, 1)],
     [c \in EngineCells |-> Fin(18, 5)],
     [c \in EngineCells |-> IF c = SlowCell THEN Fin(30, 1) ELSE Fin(10, 1)]}

\* The friction files of the runs: one of these rasters, or no file yet.
FrictionFiles ==
    {[exists |-> TRUE, dtype |-> "float64", nodata |-> Fin(-1, 1),
      res |-> <<30, 40>>, data |-> d] : d \in FrictionData} \cup {NoFile}

\* The target rasters: source 1 in a corner or in the centre, source 2 in no
\* or one other cell, 0 elsewhere; and the raster without any source.
TargetData ==
    {[c \in EngineCells |-> IF c = a THEN 1 ELSE IF c = b THEN 2 ELSE 0] :
        a \in {<<1, 1>>, SlowCell, <<GridSize, GridSize>>}, b \in EngineCells}
    \cup {[c \in EngineCells |-> 0]}

EngineInit ==
    /\ \E friction \in FrictionFiles, target \in TargetData :
          fs = OnlyFiles(
                 [src_friction |-> friction,
                  src_elevation |-> [exists |-> TRUE, dtype |-> "float64",
                                     data |-> [c \in EngineCells |-> Fin(0, 1)]],
                  src_target |-> [exists |-> TRUE, dtype |-> "Int32",
                                  data |-> target]])
    /\ \E method \in Methods \cup {"dijkstra"},
          dst_backlink \in {"dst_backlink", "None"} :
          call = [pc |-> "idle", method |-> method,
                  dst_backlink |-> dst_backlink, raised |-> "none",
                  made |-> {}, result |-> "pending"]
    /\ grass = NoLocation
    /\ max_time = DEFAULT_MAX_TIME
    /\ castMode \in {"trunc", "round"}
    /\ segmentSpeeds = << >>
    /\ lastCall = NoCall

EngineNext ==
    \/ ComputeTraveltime("src_friction", "src_elevation", "src_target")
    \/ StartPoints
    \/ Relax
    \/ ExportCost("dst_cost")
    \/ ExportBacklink
    \/ ExportNearest("dst_nearest")
    \/ CleanGrassdata
    \/ CallAgain
    \/ WriteFriction("src_friction")

SpecEngine == EngineInit /\ [][EngineNext]_vars

\* The written rasters of a run.
writtenCost == fs["dst_cost"]
writtenNearest == fs["dst_nearest"]
writtenBacklink == fs["dst_backlink"]

\* The friction (thousandths) and the sources of the run, from its inputs.
InputFriction == [c \in EngineCells |-> Milli(fs["src_friction"].data[c])]
Sources == {c \in EngineCells : fs["src_target"].data[c] # 0}

Least(S) == CHOOSE x \in S : \A y \in S : x <= y

\* One round over all the moves: d holds the least costs found so far
\* (Null where no path is known); @@ << >> makes the result a table.
Round(d) ==
    LET Arrivals(c) ==
            {d[Step(c, k)] + EdgeWeight(InputFriction, c, k) :
                k \in {j \in Directions(c) : d[Step(c, j)] # Null}}
    IN  [c \in EngineCells |->
           IF d[c] # Null THEN Least(Arrivals(c) \cup {d[c]})
           ELSE IF Arrivals(c) # {} THEN Least(Arrivals(c))
           ELSE Null] @@ << >>

\* The least cost of a path of at most n moves from a cell of S to each
\* cell.
RECURSIVE PathCost(_, _)
PathCost(S, n) ==
    IF n = 0 THEN [c \in EngineCells |-> IF c \in S THEN 0 ELSE Null]
    ELSE CHOOSE r \in {Round(d) : d \in {PathCost(S, n - 1)}} : TRUE

\* The minimum over all 8-connected paths from a cell of S.
MinPathCost(S) == PathCost(S, Cardinality(EngineCells))

\* C3: in the written nearest raster every cell holds the lowest identifier
\* among the sources that reach it at the minimum cost; on the 3x3 grid of
\* uniform friction with source 1 in the top-left and source 2 in the
\* bottom-right corner, the centre holds 1.
C3_TieGoesToLowestSourceId ==
    (writtenNearest.exists /\ Sources # {}) =>
        \A best \in {MinPathCost(Sources)} :
           \A c \in EngineCells :
              writtenNearest.data[c] =
                 Least({fs["src_target"].data[s] :
                          s \in {t \in Sources :
                                   MinPathCost({t})[c] = best[c]}})

\* C4: in the written cost raster every cell holds the minimum path cost
\* from a source (orthogonal move: the mean of the two frictions; diagonal
\* move: that times sqrt(2); a source: 0); with friction 10 everywhere and
\* one source in the centre of the 3x3 grid, the orthogonal neighbours hold
\* 10 and the diagonal neighbours 10 * sqrt(2).
C4_WrittenCostIsMinimumPathCost ==
    (writtenCost.exists /\ Sources # {}) =>
        \A best \in {MinPathCost(Sources)} :
           \A c \in EngineCells : writtenCost.data[c] * 1000 = best[c]

\* The cell the backlink of c points to.
Previous(c) == Step(c, writtenBacklink.data[c])

\* C5: in the location the finalized cells have costs of at least 0 and no
\* cell of the queue is cheaper than a finalized one (cells are finalized in
\* non-decreasing cost order); in the written rasters every reached cell has
\* a cost of at least 0, a start cell has cost 0, and the cost of the cell a
\* backlink points to is at most the cost of the cell itself.
C5_CostNonNegativeAndMonotone ==
    /\ grass.exists =>
          \A c \in grass.done :
             /\ grass.cost[c] >= 0
             /\ \A e \in Frontier(grass) : grass.cost[c] <= grass.cost[e]
             /\ grass.backlink[c] # 0 =>
                   /\ Step(c, grass.backlink[c]) \in grass.done
                   /\ grass.cost[Step(c, grass.backlink[c])] <= grass.cost[c]
    /\ (writtenCost.exists /\ writtenBacklink.exists) =>
          \A c \in EngineCells :
             writtenCost.data[c] # writtenCost.nodata =>
                /\ writtenCost.data[c] >= 0
                /\ IF writtenBacklink.data[c] = 0
                   THEN writtenCost.data[c] = 0
                   ELSE /\ writtenBacklink.data[c] \in Directions(c)
                        /\ writtenCost.data[Previous(c)] <= writtenCost.data[c]

\* C5's case: both rasters are written, and a chain of two backlinks leads
\* from a cell over a cell of positive cost to a start cell.
C5_Witness ==
    /\ writtenCost.exists /\ writtenBacklink.exists
    /\ \E c \in EngineCells :
          /\ writtenBacklink.data[c] \in Directions(c)
          /\ writtenBacklink.data[Previous(c)] \in Directions(Previous(c))
          /\ writtenCost.data[Previous(c)] > 0
          /\ writtenCost.data[c] > writtenCost.data[Previous(c)]

\* The output arguments of a run.
Outputs == {"dst_cost", "dst_nearest", "dst_backlink"}

\* C11: a call with a method other than 'whitebox', 'r.cost' and 'r.walk'
\* never gets past its start and raises ValueError there, and when it has
\* raised no output directory has been made, no GRASSDATA location exists
\* (no module has run) and no output file exists.
C11_InvalidMethodFailsFast ==
    call.method \notin Methods =>
        /\ call.pc \in {"idle", "raised"}
        /\ call.pc = "raised" =>
              /\ call.raised = "ValueError"
              /\ call.made = {}
              /\ ~grass.exists
              /\ \A dst \in Outputs : ~fs[dst].exists

\* C11's case: a call with the method 'dijkstra' has raised.
C11_Witness ==
    /\ call.method = "dijkstra"
    /\ call.pc = "raised"

\* C13: a call with a supported method and dst_backlink left at None does
\* not raise because of the missing path (TypeError from the directory
\* loop), and once it has returned the cost raster is written.
C13_BacklinkIsOptional ==
    (call.method \in Methods /\ call.dst_backlink = "None") =>
        /\ call.raised # "TypeError"
        /\ call.pc = "returned" => writtenCost.exists

\* ------------------------------------------------- rasters of different grids
\* Speed rasters of either resolution (the affine transform of the grid),
\* and a water raster of either resolution under the land cover raster.
GridRasters ==
    {[exists |-> TRUE, dtype |-> "float32", nodata |-> Fin(-1, 1),
      res |-> res, data |-> d] :
        res \in Resolutions, d \in [Cells -> {Fin(-1, 1), Fin(5, 2)}]}

GridWaters ==
    {[exists |-> TRUE, res |-> res, data |-> d] :
        res \in Resolutions, d \in PipelineWaters}

GridsInit ==
    /\ \E a, b \in GridRasters, w \in GridWaters :
          fs = OnlyFiles([A |-> a, B |-> b,
                          landcover |-> PipelineLandcover, water |-> w])
    /\ max_time = DEFAULT_MAX_TIME
    /\ castMode = "round"
    /\ segmentSpeeds = << >>
    /\ lastCall = NoCall
    /\ call = NoRun
    /\ grass = NoLocation

GridsNext ==
    \/ CombineSpeedRasters("A", "B", "AB")
    \/ CombineSpeeds("A", "B", "plainAB")
    \/ SpeedFromLandcover("landcover", "land", "water")

SpecGrids == GridsInit /\ [][GridsNext]_vars

\* C15: when the two inputs of a stage are on different grids, the stage
\* fails before any cell is computed or written: no output file comes to
\* exist.
C15_GridMismatchFailsBeforeAnyWrite ==
    /\ fs["A"].res # fs["B"].res =>
          ~fs["AB"].exists /\ ~fs["plainAB"].exists
    /\ fs["landcover"].res # fs["water"].res => ~fs["land"].exists

\* ------------------------------------------------- order of rasterization

\* Networks whose rows resolve to 80, 56, 1, 0.7 (truncated to 0), 0 and 300
\* (beyond uint8).
OrderRows ==
    [highway : {"primary", "path", "closed", "runway"},
     tracktype : {NoTag},
     smoothness : {NoTag, "bad"},
     surface : {NoTag},
     cells : Geometries]

OrderNetworks == UNION {[1..n -> OrderRows] : n \in 0..MaxSegments}

OrderInit ==
    /\ \E rows \in OrderNetworks :
           fs = OnlyFiles([network |-> NetworkFile(rows)])
    /\ max_time = DEFAULT_MAX_TIME
    /\ castMode = "round"
    /\ segmentSpeeds = << >>
    /\ lastCall = NoCall
    /\ call = NoRun
    /\ grass = NoLocation

OrderNext == SpeedFromRoads("network", "roads")

SpecOrder == OrderInit /\ [][OrderNext]_vars

\* The rows with a resolved speed (any value get_segment_speed returns for a
\* recognized category) that touch cell c.
ResolvedRows(c) ==
    {i \in DOMAIN network :
        /\ i \in DOMAIN segmentSpeeds
        /\ segmentSpeeds[i] # NoSpeed
        /\ c \in network[i].cells}

\* C16: once speed_from_roads has run, every cell touched by a geometry with
\* a resolved speed (speeds that truncate to 0 and speeds above 255 included)
\* holds the integer-truncated speed of the last such geometry, in source
\* order, that touches it.
C16_LastGeometryWins ==
    lastCall.stage = "speed_from_roads" =>
        /\ roadRaster.exists
        /\ \A c \in Cells :
               ResolvedRows(c) # {} =>
                   roadRaster.data[c] =
                       Fin(IntOf(segmentSpeeds[Last(ResolvedRows(c))]), 1)

\* ------------------------------------------------------- land_cover_speed

\* The raster land_cover_speed writes from the layers of src_datadir (one
\* layer per class, here the bands of the land cover file): the blend of all
\* layers, with -1 where the layer read last holds the nodata value of the
\* first layer.
LayersRaster(src_land, last) ==
    [exists |-> TRUE,
     dtype |-> "float32",
     nodata |-> Fin(LAND_NODATA, 1),
     res |-> src_land.res,
     data |-> [c \in Cells |->
                 IF FEq(src_land.bands[last][c], src_land.nodata)
                 THEN Fin(LAND_NODATA, 1)
                 ELSE BlendFrom(1, src_land, c, Fin(0, 1))]]

\* land_cover_speed(src_datadir, dst_filename, ...): the layers are read in
\* the order os.listdir gives them, which is arbitrary.
LandCoverSpeed(src, dst) ==
    /\ fs[src].exists
    /\ \E last \in DOMAIN fs[src].bands :
           fs' = [fs EXCEPT ![dst] = LayersRaster(fs[src], last)]
    /\ lastCall' = [stage |-> "land_cover_speed", dst |-> dst,
                    existed |-> fs[dst].exists, before |-> fs[dst],
                    read |-> TRUE, raised |-> FALSE]
    /\ UNCHANGED <<max_time, castMode, segmentSpeeds, call, grass>>

\* Cover fractions of the layers: nodata (-1), 0 and 40 percent.
NodataCoverValues == {Fin(-1, 1), Fin(0, 1), Fin(40, 1)}

NodataInit ==
    /\ \E bands \in [1..Len(Descriptions) -> [Cells -> NodataCoverValues]],
          data \in PipelineWaters :
          fs = OnlyFiles([landcover |-> LandcoverFile(bands, <<30, 40>>),
                          water |-> WaterFile(data)])
    /\ max_time = DEFAULT_MAX_TIME
    /\ castMode = "round"
    /\ segmentSpeeds = << >>
    /\ lastCall = NoCall
    /\ call = NoRun
    /\ grass = NoLocation

NodataNext ==
    \/ SpeedFromLandcover("landcover", "land", "water")
    \/ LandCoverSpeed("landcover", "land_layers")

SpecNodata == NodataInit /\ [][NodataNext]_vars

\* The cells where a land cover layer holds its nodata value.
NodataCells ==
    {c \in Cells :
        \E k \in DOMAIN fs["landcover"].bands :
            FEq(fs["landcover"].bands[k][c], fs["landcover"].nodata)}

\* C17: at every cell where a land cover layer holds its nodata value, the
\* raster written by speed_from_landcover and the raster written by
\* land_cover_speed hold -1, the nodata value of the output, not a blend.
C17_LandcoverNodataPropagates ==
    \A dst \in {"land", "land_layers"} :
        fs[dst].exists =>
            \A c \in NodataCells : FEq(fs[dst].data[c], Fin(LAND_NODATA, 1))

\* ------------------------------------------------ re-run after a failure

\* water_filename is written (by the step of the pipeline that failed to
\* provide it before the first run).
WriteWater(water) ==
    /\ ~fs[water].exists
    /\ \E data \in PipelineWaters :
           fs' = [fs EXCEPT ![water] = WaterFile(data)]
    /\ UNCHANGED <<max_time, castMode, segmentSpeeds, lastCall, call, grass>>

RerunInit ==
    /\ \E rows \in OrderNetworks :
           fs = OnlyFiles([network |-> NetworkFile(rows),
                           landcover |-> PipelineLandcover])
    /\ max_time = DEFAULT_MAX_TIME
    /\ castMode = "round"
    /\ segmentSpeeds = << >>
    /\ lastCall = NoCall
    /\ call = NoRun
    /\ grass = NoLocation

RerunNext ==
    \/ SpeedFromRoads("network", "roads")
    \/ SpeedFromLandcover("landcover", "land", "water")
    \/ WriteWater("water")

SpecRerun == RerunInit /\ [][RerunNext]_vars

\* C18: a call of a stage that returns normally, also one that follows a call
\* that failed partway, ends with the complete output raster of an
\* uninterrupted run on its inputs; a file left by a failed call is never
\* taken for the finished output.
C18_RerunAfterFailureCompletes ==
    /\ (lastCall.stage = "speed_from_landcover" /\ ~lastCall.raised) =>
           /\ fs["water"].exists
           /\ fs["land"] = LandRaster(fs["landcover"], fs["water"])
    /\ (lastCall.stage = "speed_from_roads" /\ ~lastCall.raised) =>
           fs["roads"] = RoadRaster(fs["network"].rows)

\* C19: for every method, when compute_traveltime has returned or raised, the
\* GRASSDATA directory it made is gone, and no call fails because a GRASSDATA
\* directory of an earlier call is still there.
C19_GrassdataRemovedOnEveryExit ==
    /\ call.pc \in {"returned", "raised"} => ~grass.exists
    /\ call.raised # "FileExistsError"

\* C20: before compute_traveltime has returned, and after it has raised, none
\* of dst_cost, dst_nearest and dst_backlink exists; so a cost raster is never
\* there without its nearest and backlink companions.
C20_OutputsAllOrNothing ==
    /\ call.pc # "returned" => \A dst \in Outputs : ~fs[dst].exists
    /\ call.pc = "raised" =>
           (fs["dst_cost"].exists =>
               fs["dst_nearest"].exists /\ fs["dst_backlink"].exists)

\* C21: when compute_traveltime has returned for an accepted method, the cost
\* raster is at dst_cost, the nearest raster is at dst_nearest, every cell of
\* it holds the identifier of a source whose cheapest path to the cell is the
\* cheapest of all sources, and the call has returned the output paths (not
\* None).
C21_CompletedRunWritesCostAndNearest ==
    (call.method \in Methods /\ call.pc = "returned") =>
        /\ writtenCost.exists
        /\ writtenNearest.exists
        /\ Sources # {} =>
               \A best \in {MinPathCost(Sources)} :
                   \A c \in EngineCells :
                       writtenNearest.data[c] \in
                           {fs["src_target"].data[s] :
                              s \in {t \in Sources :
                                       MinPathCost({t})[c] = best[c]}}
        /\ call.result # "None"

====
